---- MODULE Spec2Model ----
(***************************************************************************)
(* Order lifecycle and reconciliation engine of the Cardano gateway AMM    *)
(* connector (hummingbot/connector/gateway/amm/gateway_cardano_amm.py).    *)
(*                                                                         *)
(* The connector is an asyncio program: every `await` of a remote call is  *)
(* a suspension point, everything between two suspension points runs       *)
(* atomically.  Each action below is one such atomic segment.              *)
(*                                                                         *)
(* The order tracker (ClientOrderTracker), the in-flight order record      *)
(* (GatewayInFlightOrder) and the connector base class are not part of the *)
(* connector's file; they are modelled from the specification's section    *)
(* 4.1 (Order Registry) and 4.2 (Status Poller).                           *)
(***************************************************************************)
EXTENDS Integers, FiniteSets, Sequences, TLC

VARIABLES
    orders,                      \* _order_tracker: client_order_id -> order record
    trade_fills,                 \* number of trade fills recorded per order
    account_balances,            \* _account_balances: token -> total balance
    account_available_balances,  \* _account_available_balances
    native_currency,             \* _native_currency
    balance_poll_age,            \* current_timestamp - _last_balance_poll_timestamp
    poll_age,                    \* time.time() - _last_poll_timestamp
    poll_notifier,               \* _poll_notifier: asyncio.Event
    status_polling_task,         \* _status_polling_task
    get_chain_info_task,         \* _get_chain_info_task
    loop,                        \* position of the _status_polling_loop task
    passes,                      \* running update_balances() calls, by context
    polls,                       \* running update_order_status() calls, by context
    submitting,                  \* _create_order tasks awaiting amm_trade
    in_flight_orders_snapshot,   \* _in_flight_orders_snapshot
    gas_used,                    \* update_order_status: tx_receipt["gasUsed"]
    gas_price,                   \* update_order_status: tracked_order.gas_price
    fee,                         \* update_order_status: the fee given to the trade fill
    returned_id,                 \* the id the last step returned, when it was place_order
    reported,                    \* what the last step logged or raised to its caller
    script,                      \* the strategy script that runs (scripts/*.py)
    on_going_task,               \* the script's on_going_task flag
    trade_executed,              \* trade_executed / liquidity_flow_executed
    tasks,                       \* the async_task coroutines of the script
    amm_trade_calls,             \* number of submission calls the script has issued
    balance_fresh                \* balance_last_updated is less than a minute old

vars == <<orders, trade_fills, account_balances, account_available_balances,
          native_currency, balance_poll_age, poll_age, poll_notifier,
          status_polling_task, get_chain_info_task, loop, passes, polls, submitting, in_flight_orders_snapshot,
          gas_used, gas_price, fee, returned_id, reported,
          script, on_going_task, trade_executed, tasks, amm_trade_calls, balance_fresh>>

\* the variables of the strategy script, which the engine never touches
script_vars == <<script, on_going_task, trade_executed, tasks, amm_trade_calls,
                 balance_fresh>>

(***************************************************************************)
(* Bounds of the model.                                                    *)
(***************************************************************************)
MaxBal == 2         \* largest balance amount the gateway reports
MaxGas == 7         \* largest gas used and largest gas price of a fee computation
MaxTasks == 2       \* async_task coroutines of a script that can exist at once
MaxTradeCalls == 3  \* submission calls of a script that are counted

(***************************************************************************)
(* Program constants.                                                      *)
(***************************************************************************)
POLL_INTERVAL == 1
UPDATE_BALANCE_INTERVAL == 30
\* a tracker built with a budget one short of the default
lost_order_count_limit_short == 10 - 1

lost_order_count_limit == 10

Sides == {"buy", "sell"}
TradingPairs == {"ADA-MIN"}
Tokens == {"A", "B"}
TimeSteps == {30, 31}           \* seconds between two observed clock ticks
NoBal == -1                     \* token not in a balance map
NoId == "none"                  \* exchange_order_id is None
NoOrderId == <<"none", "none">>  \* no client order id
NoCurrency == "none"            \* _native_currency is None
NoReceipt == -1                 \* txReceipt is None

NoFee == [m |-> -1, e |-> 0]

Min(a, b) == IF a < b THEN a ELSE b

(***************************************************************************)
(* create_market_order_id: f"{side.name.lower()}-{trading_pair}".          *)
(***************************************************************************)
create_market_order_id(side, trading_pair) == <<side, trading_pair>>

OrderIds == {create_market_order_id(s, p) : s \in Sides, p \in TradingPairs}

(***************************************************************************)
(* Order records and the registry (from the specification, 3 and 4.1).     *)
(***************************************************************************)
NoOrder == [state |-> "ABSENT", exchange_order_id |-> NoId, price |-> 0,
            amount |-> 0, not_found |-> 0, misc |-> "none"]

TerminalStates == {"FILLED", "FAILED", "CANCELED"}

IsPresent(reg, id) == reg[id].state # "ABSENT"

is_done(rec) == rec.state \in TerminalStates

\* the active view of the registry
active_orders(reg) == {id \in OrderIds : IsPresent(reg, id) /\ ~is_done(reg[id])}

\* InFlightOrder.is_open
is_open(rec) == rec.state \in {"PENDING_CREATE", "OPEN", "PENDING_CANCEL"}

\* GatewayInFlightOrder(...) as built by start_tracking_order
NewOrder(exchange_order_id, price, amount, is_approval) ==
    [state |-> IF is_approval THEN "PENDING_APPROVAL" ELSE "PENDING_CREATE",
     exchange_order_id |-> exchange_order_id, price |-> price, amount |-> amount,
     not_found |-> 0, misc |-> "none"]

\* Registry.start_tracking: the caller sees DuplicateOrderError when present
start_tracking(reg, id, rec) ==
    IF IsPresent(reg, id) THEN reg ELSE [reg EXCEPT ![id] = rec]

\* Registry.apply_update: no-op for an unknown order, ignored for a terminal one;
\* otherwise state, exchange id and metadata are replaced together
apply_update(reg, id, new_state, exchange_order_id, misc) ==
    IF ~IsPresent(reg, id) \/ is_done(reg[id])
    THEN reg
    ELSE [reg EXCEPT ![id].state = new_state,
                     ![id].exchange_order_id =
                         IF exchange_order_id = NoId THEN @ ELSE exchange_order_id,
                     ![id].misc = IF misc = "none" THEN @ ELSE misc]

\* Registry.mark_not_found: FAILED (lost) at the limit-th not-found response
mark_not_found(reg, id, limit) ==
    IF ~IsPresent(reg, id) \/ is_done(reg[id])
    THEN reg
    ELSE IF reg[id].not_found + 1 >= limit
         THEN [reg EXCEPT ![id].not_found = @ + 1, ![id].state = "FAILED",
                          ![id].misc = "lost"]
         ELSE [reg EXCEPT ![id].not_found = @ + 1]

(***************************************************************************)
(* The order snapshot.  An order object holds its scalar attributes and a  *)
(* reference to the collection of its fills (trade_fills); copy.copy gives *)
(* a new object with the same attribute values and the same references.   *)
(* Nothing reads the scalar attributes of a copy, so a copy is kept as its *)
(* reference to the fills.                                                 *)
(***************************************************************************)
NoCopy == [order_fills |-> "none", fills_at_copy |-> 0]

\* copy.copy of the order object of id o: order_fills is the same collection as
\* the order's; fills_at_copy remembers what it held when the copy was made
copy(reg, fills, o) ==
    IF IsPresent(reg, o)
    THEN [order_fills |-> "shared", fills_at_copy |-> fills[o]]
    ELSE NoCopy

\* the fills reachable from the copy of order o in the snapshot
snapshot_fills(o) ==
    IF in_flight_orders_snapshot[o].order_fills = "shared"
    THEN trade_fills[o]
    ELSE in_flight_orders_snapshot[o].fills_at_copy

(***************************************************************************)
(* Balance maps.                                                           *)
(***************************************************************************)
BalanceMaps == [Tokens -> {NoBal} \cup (1..MaxBal)]

Keys(m) == {t \in Tokens : m[t] # NoBal}

PassCtx == {"loop", "orphan", "demand"}
PollCtx == {"loop", "orphan"}

IdlePass == [pc |-> "idle", local_asset_names |-> {},
             resp |-> [t \in Tokens |-> NoBal]]

\* how a finished call is left: the loop's children are joined by the loop
Finished(ctx) == IF ctx = "loop" THEN "done" ELSE "idle"
Raised(ctx) == IF ctx = "loop" THEN "raised" ELSE "idle"

(***************************************************************************)
(* Transaction status responses of the gateway.                            *)
(***************************************************************************)
TxStatuses == {-1, 0, 1, 2, 3}
ReceiptStatuses == {NoReceipt, 0, 1}

TxException == [kind |-> "exception", txStatus |-> 0, receipt |-> NoReceipt]
TxNoHash == [kind |-> "no_txHash", txStatus |-> 0, receipt |-> NoReceipt]
TxDetails == {TxException, TxNoHash} \cup
             [kind : {"details"}, txStatus : TxStatuses, receipt : ReceiptStatuses]
NoResult == [kind |-> "none", txStatus |-> 0, receipt |-> NoReceipt]

IdlePoll == [pc |-> "idle", tracked_orders |-> {},
             update_results |-> [o \in OrderIds |-> NoResult]]

(***************************************************************************)
(* Init: the state after __init__.                                         *)
(***************************************************************************)
InitEngine ==
    /\ orders = [o \in OrderIds |-> NoOrder]
    /\ trade_fills = [o \in OrderIds |-> 0]
    /\ account_balances = [t \in Tokens |-> NoBal]
    /\ account_available_balances = [t \in Tokens |-> NoBal]
    /\ native_currency = NoCurrency
    /\ balance_poll_age = 0
    /\ poll_age = POLL_INTERVAL + 1
    /\ poll_notifier = "None"
    /\ status_polling_task = "unset"
    /\ get_chain_info_task = "unset"
    /\ loop = "init"
    /\ passes = [c \in PassCtx |-> IdlePass]
    /\ polls = [c \in PollCtx |-> IdlePoll]
    /\ submitting = {}
    /\ in_flight_orders_snapshot = [o \in OrderIds |-> NoCopy]
    /\ returned_id = NoOrderId
    /\ reported = {}

\* no fee has been computed
\* the strategy scripts of scripts/
NoScript == "none"
Scripts == {"amm_price_minswap", "amm_trade_minswap", "amm_trade_wait_sundaeswap",
            "liquidity_bot_sundaeswap"}
TradeScripts == {"amm_trade_minswap", "amm_trade_wait_sundaeswap"}

TaskIds == 1..MaxTasks
NoTask == [pc |-> "none", wallet |-> FALSE]

\* the class attributes of a script (on_going_task = False, trade_executed =
\* False) and its __init__ (balance_last_updated = None)
InitScriptFlags ==
    /\ on_going_task = FALSE
    /\ trade_executed = FALSE
    /\ tasks = [i \in TaskIds |-> NoTask]
    /\ amm_trade_calls = 0
    /\ balance_fresh = FALSE

\* the engine without a strategy script
InitNoScript == script = NoScript /\ InitScriptFlags

Init ==
    /\ InitEngine
    /\ gas_used = 0
    /\ gas_price = 0
    /\ fee = NoFee
    /\ InitNoScript

(***************************************************************************)
(* place_order / _create_order.                                            *)
(***************************************************************************)
\* _create_order with start_tracking_order inside the try block: the
\* DuplicateOrderError is caught by `except Exception`, which applies a FAILED
\* update to the order id
create_order_begin_in_try(order_id, price, amount) ==
    IF IsPresent(orders, order_id)
    THEN /\ orders' = [orders EXCEPT ![order_id].state =
                           IF is_done(orders[order_id]) THEN @ ELSE "FAILED"]
         /\ reported' = {"submit_error"}
         /\ UNCHANGED submitting
    ELSE /\ orders' = [orders EXCEPT ![order_id] = NewOrder(NoId, price, amount, FALSE)]
         /\ submitting' = submitting \cup {order_id}
         /\ reported' = {}

\* _create_order up to its first await.  start_tracking_order is called before
\* the try block: a DuplicateOrderError leaves the task without any order
\* update and without the amm_trade call
create_order_begin(order_id, price, amount) ==
    IF IsPresent(orders, order_id)
    THEN /\ reported' = {"DuplicateOrderError"}
         /\ UNCHANGED <<orders, submitting>>
    ELSE /\ orders' = start_tracking(orders, order_id, NewOrder(NoId, price, amount, FALSE))
         /\ submitting' = submitting \cup {order_id}
         /\ reported' = {}

\* place_order: the id is computed, the _create_order task is spawned and runs
\* to the amm_trade call
place_order(side, trading_pair, price, amount) ==
    /\ returned_id' = create_market_order_id(side, trading_pair)
    /\ UNCHANGED <<gas_used, gas_price, script_vars, fee, in_flight_orders_snapshot>>
    /\ create_order_begin(create_market_order_id(side, trading_pair), price, amount)
    /\ UNCHANGED <<trade_fills, account_balances, account_available_balances,
                   native_currency, balance_poll_age, poll_age, poll_notifier,
                   status_polling_task, get_chain_info_task, loop, passes, polls>>

\* start_tracking_order called by the connector's user (a public method)
start_tracking_order(order_id, exchange_order_id, price, amount, is_approval) ==
    /\ IF IsPresent(orders, order_id)
       THEN /\ reported' = {"DuplicateOrderError"}
            /\ UNCHANGED orders
       ELSE /\ orders' = start_tracking(orders, order_id,
                              NewOrder(exchange_order_id, price, amount, is_approval))
            /\ reported' = {}
    /\ returned_id' = NoOrderId
    /\ UNCHANGED <<gas_used, gas_price, script_vars, fee, in_flight_orders_snapshot>>
    /\ UNCHANGED <<trade_fills, account_balances, account_available_balances,
                   native_currency, balance_poll_age, poll_age, poll_notifier,
                   status_polling_task, get_chain_info_task, loop, passes, polls, submitting>>

\* _create_order without the test of the transaction hash: an empty hash makes
\* the order OPEN as well
create_order_update_any_hash(reg, order_id, result) ==
    IF result \in {"txHash", "empty"}
    THEN apply_update(reg, order_id, "OPEN", IF result = "txHash" THEN "tx" ELSE NoId, "gas")
    ELSE apply_update(reg, order_id, "FAILED", NoId, "none")

\* the order update _create_order applies once amm_trade has returned or raised
create_order_update(reg, order_id, result) ==
    IF result = "txHash"
    THEN apply_update(reg, order_id, "OPEN", "tx", "gas")
    ELSE apply_update(reg, order_id, "FAILED", NoId, "none")

\* amm_trade returns a response with a transaction hash and the gas fields,
\* with an empty hash, with a hash and without gas fields (Decimal(None) and
\* int(None) raise TypeError inside the try), or raises
SubmitResults == {"txHash", "empty", "txHash_no_gas", "raise"}

\* the responses that carry a transaction hash
AcceptedResults == {"txHash", "txHash_no_gas"}

create_order_return(order_id, result) ==
    /\ order_id \in submitting
    /\ submitting' = submitting \ {order_id}
    /\ orders' = create_order_update(orders, order_id, result)
    /\ reported' = IF result = "txHash" THEN {} ELSE {"submit_error"}
    /\ UNCHANGED <<trade_fills, account_balances, account_available_balances,
                   native_currency, balance_poll_age, poll_age, poll_notifier,
                   status_polling_task, get_chain_info_task, loop, passes, polls>>
    /\ returned_id' = NoOrderId
    /\ UNCHANGED <<gas_used, gas_price, script_vars, fee, in_flight_orders_snapshot>>

(***************************************************************************)
(* update_order_status.                                                    *)
(***************************************************************************)
\* self.amm_orders
amm_orders(reg) == {id \in active_orders(reg) : is_open(reg[id])}

\* the call up to its first await (the gather of the exchange order ids)
poll_begin(tracked) ==
    IF tracked = {}
    THEN [IdlePoll EXCEPT !.pc = "done"]
    ELSE [IdlePoll EXCEPT !.pc = "ids", !.tracked_orders = tracked]

\* every tracked order's exchange id is known: the status queries are issued
PollGotIds(c) ==
    /\ polls[c].pc = "ids"
    /\ \A o \in polls[c].tracked_orders : orders[o].exchange_order_id # NoId
    /\ polls' = [polls EXCEPT ![c].pc = "query"]
    /\ UNCHANGED <<orders, trade_fills, account_balances, account_available_balances,
                   native_currency, balance_poll_age, poll_age, poll_notifier,
                   status_polling_task, get_chain_info_task, loop, passes, submitting>>
    /\ returned_id' = NoOrderId
    /\ UNCHANGED <<gas_used, gas_price, script_vars, fee, in_flight_orders_snapshot>>
    /\ reported' = {}

\* get_exchange_order_id of an order without exchange id times out: the first
\* gather has no return_exceptions, the call raises
PollIdTimeout(c) ==
    /\ polls[c].pc = "ids"
    /\ \E o \in polls[c].tracked_orders : orders[o].exchange_order_id = NoId
    /\ polls' = [polls EXCEPT ![c] = [IdlePoll EXCEPT !.pc = Raised(c)]]
    /\ UNCHANGED <<orders, trade_fills, account_balances, account_available_balances,
                   native_currency, balance_poll_age, poll_age, poll_notifier,
                   status_polling_task, get_chain_info_task, loop, passes, submitting>>
    /\ returned_id' = NoOrderId
    /\ UNCHANGED <<gas_used, gas_price, script_vars, fee, in_flight_orders_snapshot>>
    /\ reported' = {}

\* safe_gather without return_exceptions: the first exception of a query leaves
\* the gather
status_gather_raises_first(results, tracked) ==
    \E o \in tracked : results[o].kind = "exception"

\* safe_gather(..., return_exceptions=True): an exception of one query is a
\* result like the others, the gather itself never raises
status_gather_raises(results, tracked) == FALSE

\* the status queries have returned
PollQueryReturn(c, results) ==
    /\ polls[c].pc = "query"
    /\ IF status_gather_raises(results, polls[c].tracked_orders)
       THEN polls' = [polls EXCEPT ![c] = [IdlePoll EXCEPT !.pc = Raised(c)]]
       ELSE polls' = [polls EXCEPT ![c].pc = "results",
                                   ![c].update_results =
                                       [o \in OrderIds |->
                                           IF o \in polls[c].tracked_orders
                                           THEN results[o] ELSE NoResult]]
    /\ UNCHANGED <<orders, trade_fills, account_balances, account_available_balances,
                   native_currency, balance_poll_age, poll_age, poll_notifier,
                   status_polling_task, get_chain_info_task, loop, passes, submitting>>
    /\ returned_id' = NoOrderId
    /\ UNCHANGED <<gas_used, gas_price, script_vars, fee, in_flight_orders_snapshot>>
    /\ reported' = {}

\* the for loop with the pending test first and the success status in its list
status_branch_pending_first(tx) ==
    IF tx.kind = "exception" THEN "error"
    ELSE IF tx.kind = "no_txHash" THEN "no_txHash"
    ELSE IF tx.txStatus \in {0, 1, 2, 3} THEN "pending"
    ELSE IF tx.txStatus = -1 \/ (tx.receipt # -1 /\ tx.receipt = 0) THEN "not_found"
    ELSE "none"

\* the for loop with the test of the failure status and of the failed receipt
\* before the test of the pending statuses
status_branch_failure_first(tx) ==
    IF tx.kind = "exception" THEN "error"
    ELSE IF tx.kind = "no_txHash" THEN "no_txHash"
    ELSE IF tx.txStatus = 1 /\ tx.receipt = 1 THEN "filled"
    ELSE IF tx.txStatus = -1 \/ tx.receipt = 0 THEN "not_found"
    ELSE IF tx.txStatus \in {0, 2, 3} THEN "pending"
    ELSE "none"

\* the branch the for loop takes for one response
status_branch(tx) ==
    IF tx.kind = "exception" THEN "error"
    ELSE IF tx.kind = "no_txHash" THEN "no_txHash"
    ELSE IF tx.txStatus = 1 /\ (tx.receipt # NoReceipt /\ tx.receipt = 1) THEN "filled"
    ELSE IF tx.txStatus \in {0, 2, 3} THEN "pending"
    ELSE IF tx.txStatus = -1 \/ (tx.receipt # NoReceipt /\ tx.receipt = 0)
         THEN "not_found"
    ELSE "none"

\* the for loop writing FILLED into the order record itself instead of handing
\* an OrderUpdate to the tracker
status_update_direct(reg, o, tx) ==
    IF status_branch(tx) = "filled" THEN [reg EXCEPT ![o].state = "FILLED"]
    ELSE IF status_branch(tx) = "not_found"
         THEN mark_not_found(reg, o, lost_order_count_limit)
    ELSE reg

\* the registry call made for one response
status_update(reg, o, tx) ==
    IF status_branch(tx) = "filled" THEN apply_update(reg, o, "FILLED", NoId, "none")
    ELSE IF status_branch(tx) = "not_found"
         THEN mark_not_found(reg, o, lost_order_count_limit)
    ELSE reg

\* processs_trade_fill_update: one more fill recorded for the order
trade_fill_update(fills, o, tx) ==
    IF status_branch(tx) = "filled" THEN [fills EXCEPT ![o] = @ + 1] ELSE fills

\* what the for loop logs for one response
status_report(tx) ==
    IF status_branch(tx) = "error" THEN "status_query_error"
    ELSE IF status_branch(tx) = "no_txHash" THEN "no_txHash_error"
    ELSE IF status_branch(tx) = "not_found" THEN "network_error"
    ELSE "nothing"

\* the for loop over zip(tracked_orders, update_results)
PollProcess(c) ==
    /\ polls[c].pc = "results"
    /\ orders' = [o \in OrderIds |->
                    IF o \in polls[c].tracked_orders
                    THEN status_update(orders, o, polls[c].update_results[o])[o]
                    ELSE orders[o]]
    /\ trade_fills' = [o \in OrderIds |->
                    IF o \in polls[c].tracked_orders
                    THEN trade_fill_update(trade_fills, o, polls[c].update_results[o])[o]
                    ELSE trade_fills[o]]
    /\ reported' =
          {status_report(polls[c].update_results[o]) : o \in polls[c].tracked_orders}
             \ {"nothing"}
    /\ polls' = [polls EXCEPT ![c] = [IdlePoll EXCEPT !.pc = Finished(c)]]
    /\ UNCHANGED <<account_balances, account_available_balances,
                   native_currency, balance_poll_age, poll_age, poll_notifier,
                   status_polling_task, get_chain_info_task, loop, passes, submitting>>
    /\ returned_id' = NoOrderId
    /\ UNCHANGED <<gas_used, gas_price, script_vars, fee, in_flight_orders_snapshot>>

(***************************************************************************)
(* tracking_states and restore_tracking_states.                            *)
(***************************************************************************)
NoJson == <<>>

\* GatewayInFlightOrder.to_json: the attributes of the order record, in a list
to_json(rec) == <<rec.state, rec.exchange_order_id, rec.price, rec.amount, rec.misc>>

\* GatewayInFlightOrder.from_json
from_json(js) ==
    [state |-> js[1], exchange_order_id |-> js[2], price |-> js[3], amount |-> js[4],
     not_found |-> 0, misc |-> js[5]]

\* tracking_states: the JSON of every order of in_flight_orders, which is the
\* active view of the tracker
tracking_states(reg) ==
    [o \in OrderIds |-> IF o \in active_orders(reg) THEN to_json(reg[o]) ELSE NoJson]

\* restore_tracking_states: _in_flight_orders.update(...) with the saved orders
restore_tracking_states(reg, saved_states) ==
    [o \in OrderIds |->
        IF saved_states[o] # NoJson THEN from_json(saved_states[o]) ELSE reg[o]]

\* the tracking states are saved, the process ends, and a new engine is built
\* and given the saved states
RestartAndRestore ==
    /\ orders' = restore_tracking_states([o \in OrderIds |-> NoOrder],
                                         tracking_states(orders))
    /\ trade_fills' = [o \in OrderIds |-> 0]
    /\ account_balances' = [t \in Tokens |-> NoBal]
    /\ account_available_balances' = [t \in Tokens |-> NoBal]
    /\ native_currency' = NoCurrency
    /\ balance_poll_age' = 0
    /\ poll_age' = POLL_INTERVAL + 1
    /\ poll_notifier' = "None"
    /\ status_polling_task' = "unset"
    /\ get_chain_info_task' = "unset"
    /\ loop' = "init"
    /\ passes' = [c \in PassCtx |-> IdlePass]
    /\ polls' = [c \in PollCtx |-> IdlePoll]
    /\ submitting' = {}
    /\ in_flight_orders_snapshot' = [o \in OrderIds |-> NoCopy]
    /\ returned_id' = NoOrderId
    /\ UNCHANGED <<gas_used, gas_price, script_vars, fee>>
    /\ reported' = {}

\* what tracking_states returned when each order of the registry had just been
\* tracked by place_order
first_tracking_states(reg) ==
    [o \in OrderIds |->
        IF IsPresent(reg, o)
        THEN to_json(NewOrder(NoId, reg[o].price, reg[o].amount, FALSE))
        ELSE NoJson]

\* restore_tracking_states called on the running engine with states that were
\* saved earlier
RestoreSaved ==
    /\ \E o \in OrderIds : IsPresent(orders, o)
    /\ orders' = restore_tracking_states(orders, first_tracking_states(orders))
    /\ reported' = {}
    /\ returned_id' = NoOrderId
    /\ UNCHANGED <<gas_used, gas_price, script_vars, fee, in_flight_orders_snapshot>>
    /\ UNCHANGED <<trade_fills, account_balances, account_available_balances,
                   native_currency, balance_poll_age, poll_age, poll_notifier,
                   status_polling_task, get_chain_info_task, loop, passes, polls, submitting>>

(***************************************************************************)
(* The fee of a fill.  A Decimal is a mantissa and an exponent of ten.     *)
(***************************************************************************)
Dec(m, e) == [m |-> m, e |-> e]

RECURSIVE Normalized(_)
\* the same number without trailing zeros in its mantissa
Normalized(d) ==
    IF d.m = 0 THEN Dec(0, 0)
    ELSE IF d.m % 10 = 0 THEN Normalized(Dec(d.m \div 10, d.e + 1))
    ELSE d

\* Decimal.__mul__ and Decimal.__truediv__ by a power of ten (both exact here)
DecMul(a, b) == Normalized(Dec(a.m * b.m, a.e + b.e))
DecDivPow10(a, k) == Normalized(Dec(a.m, a.e - k))

\* Decimal(str(1e9)) is ten to the power 9
FeeDivisorExponent == 9

\* fee = Decimal(str(gas_used)) * Decimal(str(gas_price)) / Decimal(str(1e9))
fee_amount(used, price) ==
    DecDivPow10(DecMul(Normalized(Dec(used, 0)), Normalized(Dec(price, 0))),
                FeeDivisorExponent)

\* the fee of a fill is computed from the receipt and the order
ComputeFee ==
    /\ fee = NoFee
    /\ fee' = fee_amount(gas_used, gas_price)
    /\ UNCHANGED <<orders, trade_fills, account_balances, account_available_balances,
                   native_currency, balance_poll_age, poll_age, poll_notifier,
                   status_polling_task, get_chain_info_task, loop, passes, polls,
                   submitting, in_flight_orders_snapshot, gas_used, gas_price, script_vars,
                   returned_id, reported>>

(***************************************************************************)
(* update_balances.                                                        *)
(***************************************************************************)
\* the debounce check and what follows it up to the get_balances await
balance_check(ctx, on_interval) ==
    IF ~on_interval \/ balance_poll_age > UPDATE_BALANCE_INTERVAL
    THEN /\ balance_poll_age' = 0
         /\ passes' = [passes EXCEPT ![ctx] =
                          [IdlePass EXCEPT !.pc = "fetch",
                                           !.local_asset_names = Keys(account_balances)]]
    ELSE /\ passes' = [passes EXCEPT ![ctx] = [IdlePass EXCEPT !.pc = Finished(ctx)]]
         /\ UNCHANGED balance_poll_age

\* the call up to its first await
balance_begin(ctx, on_interval) ==
    IF native_currency = NoCurrency
    THEN /\ passes' = [passes EXCEPT ![ctx] = [IdlePass EXCEPT !.pc = "chain"]]
         /\ UNCHANGED balance_poll_age
    ELSE balance_check(ctx, on_interval)

\* get_network_status answers a dict (nativeCurrency "ADA", or no such field),
\* a dict naming another native currency, a list, or raises
ChainInfoResults == {"dict", "dict_tADA", "list", "raise"}

\* the value of _native_currency once get_chain_info has handled the answer
chain_info_native_currency(current, result) ==
    IF result = "dict" THEN "ADA"
    ELSE IF result = "dict_tADA" THEN "tADA"
    ELSE current

\* the on_interval argument of a running call: the loop passes False at startup
\* and True in a cycle (an orphan was started by a cycle), _update_balances
\* passes nothing (False)
on_interval(ctx) ==
    IF ctx = "demand" THEN FALSE
    ELSE IF ctx = "orphan" THEN TRUE
    ELSE loop = "cycle"

\* get_chain_info returns inside update_balances, which goes on to the check
BalanceChainInfoReturn(ctx, result) ==
    /\ passes[ctx].pc = "chain"
    /\ native_currency' = chain_info_native_currency(native_currency, result)
    /\ reported' = IF result = "raise" THEN {"chain_info_error"} ELSE {}
    /\ balance_check(ctx, on_interval(ctx))
    /\ UNCHANGED <<orders, trade_fills, account_balances, account_available_balances,
                   poll_age, poll_notifier, status_polling_task, get_chain_info_task, loop, polls,
                   submitting>>
    /\ returned_id' = NoOrderId
    /\ UNCHANGED <<gas_used, gas_price, script_vars, fee, in_flight_orders_snapshot>>

\* the get_chain_info task of start_network returns
GetChainInfoReturn(result) ==
    /\ get_chain_info_task = "running"
    /\ get_chain_info_task' = "done"
    /\ native_currency' = chain_info_native_currency(native_currency, result)
    /\ reported' = IF result = "raise" THEN {"chain_info_error"} ELSE {}
    /\ UNCHANGED <<orders, trade_fills, account_balances, account_available_balances,
                   balance_poll_age, poll_age, poll_notifier, status_polling_task,
                   loop, passes, polls, submitting>>
    /\ returned_id' = NoOrderId
    /\ UNCHANGED <<gas_used, gas_price, script_vars, fee, in_flight_orders_snapshot>>

\* get_balances returns a response
BalanceFetchReturn(ctx, resp) ==
    /\ passes[ctx].pc = "fetch"
    /\ passes' = [passes EXCEPT ![ctx].pc = "merge", ![ctx].resp = resp]
    /\ UNCHANGED <<orders, trade_fills, account_balances, account_available_balances,
                   native_currency, balance_poll_age, poll_age, poll_notifier,
                   status_polling_task, get_chain_info_task, loop, polls, submitting>>
    /\ returned_id' = NoOrderId
    /\ UNCHANGED <<gas_used, gas_price, script_vars, fee, in_flight_orders_snapshot>>
    /\ reported' = {}

\* get_balances raises (transport error): the exception leaves update_balances
BalanceFetchRaise(ctx) ==
    /\ passes[ctx].pc = "fetch"
    /\ passes' = [passes EXCEPT ![ctx] = [IdlePass EXCEPT !.pc = Raised(ctx)]]
    /\ UNCHANGED <<orders, trade_fills, account_balances, account_available_balances,
                   native_currency, balance_poll_age, poll_age, poll_notifier,
                   status_polling_task, get_chain_info_task, loop, polls, submitting>>
    /\ returned_id' = NoOrderId
    /\ UNCHANGED <<gas_used, gas_price, script_vars, fee, in_flight_orders_snapshot>>
    /\ reported' = {}

\* the first loop of the merge: every token of the response is overwritten
merge_overwrite(bal, resp) ==
    [t \in Tokens |-> IF resp[t] # NoBal THEN resp[t] ELSE bal[t]]

\* asset_names_to_remove
asset_names_to_remove(local_asset_names, resp) == local_asset_names \ Keys(resp)

merge_delete(bal, names) == [t \in Tokens |-> IF t \in names THEN NoBal ELSE bal[t]]

\* the merge with a deletion loop that deletes from the available-balance map
\* only
balance_merge_delete_available_only(ctx) ==
    /\ passes[ctx].pc = "merge"
    /\ LET resp == passes[ctx].resp
           remove == asset_names_to_remove(passes[ctx].local_asset_names, resp)
           avail == merge_overwrite(account_available_balances, resp)
           total == merge_overwrite(account_balances, resp)
       IN IF remove \subseteq Keys(avail)
          THEN /\ account_available_balances' = merge_delete(avail, remove)
               /\ account_balances' = total
               /\ in_flight_orders_snapshot' = [o \in OrderIds |-> copy(orders, trade_fills, o)]
               /\ passes' = [passes EXCEPT ![ctx] = [IdlePass EXCEPT !.pc = Finished(ctx)]]
          ELSE \E deleted \in SUBSET (remove \cap Keys(avail)) :
               /\ account_available_balances' = merge_delete(avail, deleted)
               /\ account_balances' = total
               /\ passes' = [passes EXCEPT ![ctx] = [IdlePass EXCEPT !.pc = Raised(ctx)]]
               /\ UNCHANGED in_flight_orders_snapshot
    /\ UNCHANGED <<orders, trade_fills, native_currency, balance_poll_age, poll_age,
                   poll_notifier, status_polling_task, get_chain_info_task, loop, polls, submitting>>
    /\ returned_id' = NoOrderId
    /\ UNCHANGED <<gas_used, gas_price, script_vars, fee>>
    /\ reported' = {}

\* the merge of the response into both balance maps.  `del` of a token that is
\* no longer in the map raises KeyError after some of the other tokens (the
\* set is iterated in no particular order) have been deleted.
BalanceMerge(ctx) ==
    /\ passes[ctx].pc = "merge"
    /\ LET resp == passes[ctx].resp
           remove == asset_names_to_remove(passes[ctx].local_asset_names, resp)
           avail == merge_overwrite(account_available_balances, resp)
           total == merge_overwrite(account_balances, resp)
       IN IF remove \subseteq Keys(avail)
          THEN /\ account_available_balances' = merge_delete(avail, remove)
               /\ account_balances' = merge_delete(total, remove)
               /\ in_flight_orders_snapshot' = [o \in OrderIds |-> copy(orders, trade_fills, o)]
               /\ passes' = [passes EXCEPT ![ctx] = [IdlePass EXCEPT !.pc = Finished(ctx)]]
          ELSE \E deleted \in SUBSET (remove \cap Keys(avail)) :
               /\ account_available_balances' = merge_delete(avail, deleted)
               /\ account_balances' = merge_delete(total, deleted)
               /\ passes' = [passes EXCEPT ![ctx] = [IdlePass EXCEPT !.pc = Raised(ctx)]]
               /\ UNCHANGED in_flight_orders_snapshot
    /\ UNCHANGED <<orders, trade_fills, native_currency, balance_poll_age, poll_age,
                   poll_notifier, status_polling_task, get_chain_info_task, loop, polls, submitting>>
    /\ returned_id' = NoOrderId
    /\ UNCHANGED <<gas_used, gas_price, script_vars, fee>>
    /\ reported' = {}

\* _update_balances, called by UserBalances in a task of its own
UserUpdateBalances ==
    /\ passes["demand"].pc = "idle"
    /\ balance_begin("demand", FALSE)
    /\ UNCHANGED <<orders, trade_fills, account_balances, account_available_balances,
                   native_currency, poll_age, poll_notifier, status_polling_task, get_chain_info_task,
                   loop, polls, submitting>>
    /\ returned_id' = NoOrderId
    /\ UNCHANGED <<gas_used, gas_price, script_vars, fee, in_flight_orders_snapshot>>
    /\ reported' = {}

(***************************************************************************)
(* start_network, _status_polling_loop, tick, stop_network.                *)
(***************************************************************************)
\* start_network: the loop task starts with update_balances(on_interval=False),
\* outside the loop's try block
StartNetwork ==
    /\ loop = "init"
    /\ status_polling_task' = "task"
    /\ get_chain_info_task' = "running"
    /\ loop' = "startup"
    /\ balance_begin("loop", FALSE)
    /\ UNCHANGED <<orders, trade_fills, account_balances, account_available_balances,
                   native_currency, poll_age, poll_notifier, polls, submitting>>
    /\ returned_id' = NoOrderId
    /\ UNCHANGED <<gas_used, gas_price, script_vars, fee, in_flight_orders_snapshot>>
    /\ reported' = {}

\* the startup reconciliation has returned: first iteration, a new Event
LoopStartupDone ==
    /\ loop = "startup"
    /\ passes["loop"].pc = "done"
    /\ loop' = "waiting"
    /\ poll_notifier' = "clear"
    /\ passes' = [passes EXCEPT !["loop"] = IdlePass]
    /\ UNCHANGED <<orders, trade_fills, account_balances, account_available_balances,
                   native_currency, balance_poll_age, poll_age, status_polling_task, get_chain_info_task,
                   polls, submitting>>
    /\ returned_id' = NoOrderId
    /\ UNCHANGED <<gas_used, gas_price, script_vars, fee, in_flight_orders_snapshot>>
    /\ reported' = {}

\* the startup reconciliation has raised: nothing catches it, the task ends
LoopStartupRaise ==
    /\ loop = "startup"
    /\ passes["loop"].pc = "raised"
    /\ loop' = "dead"
    /\ reported' = {"unhandled_task_error"}
    /\ passes' = [passes EXCEPT !["loop"] = IdlePass]
    /\ UNCHANGED <<orders, trade_fills, account_balances, account_available_balances,
                   native_currency, balance_poll_age, poll_age, poll_notifier,
                   status_polling_task, get_chain_info_task, polls, submitting>>
    /\ returned_id' = NoOrderId
    /\ UNCHANGED <<gas_used, gas_price, script_vars, fee, in_flight_orders_snapshot>>

\* tick without the test of the time elapsed since the last poll
tick_without_interval(elapsed) ==
    /\ balance_poll_age' = Min(balance_poll_age + elapsed, UPDATE_BALANCE_INTERVAL + 1)
    /\ poll_age' = Min(poll_age + elapsed, POLL_INTERVAL + 1)
    /\ poll_notifier' = IF poll_notifier = "clear" THEN "set" ELSE poll_notifier
    /\ returned_id' = NoOrderId
    /\ reported' = {}
    /\ UNCHANGED <<orders, trade_fills, account_balances, account_available_balances,
                   native_currency, status_polling_task, get_chain_info_task, loop, passes, polls,
                   submitting, gas_used, gas_price, script_vars, fee, in_flight_orders_snapshot>>

\* tick: the clock advances and the wake signal is set when a poll is due
tick(elapsed) ==
    /\ balance_poll_age' = Min(balance_poll_age + elapsed, UPDATE_BALANCE_INTERVAL + 1)
    /\ poll_age' = Min(poll_age + elapsed, POLL_INTERVAL + 1)
    /\ poll_notifier' = IF poll_age' > POLL_INTERVAL /\ poll_notifier = "clear"
                        THEN "set" ELSE poll_notifier
    /\ UNCHANGED <<orders, trade_fills, account_balances, account_available_balances,
                   native_currency, status_polling_task, get_chain_info_task, loop, passes, polls,
                   submitting>>
    /\ returned_id' = NoOrderId
    /\ UNCHANGED <<gas_used, gas_price, script_vars, fee, in_flight_orders_snapshot>>
    /\ reported' = {}

\* the wait on the notifier returns: both calls of the gather start
LoopWake ==
    /\ loop = "waiting"
    /\ poll_notifier = "set"
    /\ loop' = "cycle"
    /\ balance_begin("loop", TRUE)
    /\ polls' = [polls EXCEPT !["loop"] = poll_begin(amm_orders(orders))]
    /\ UNCHANGED <<orders, trade_fills, account_balances, account_available_balances,
                   native_currency, poll_age, poll_notifier, status_polling_task, get_chain_info_task,
                   submitting>>
    /\ returned_id' = NoOrderId
    /\ UNCHANGED <<gas_used, gas_price, script_vars, fee, in_flight_orders_snapshot>>
    /\ reported' = {}

\* both calls of the gather have returned
LoopCycleDone ==
    /\ loop = "cycle"
    /\ passes["loop"].pc = "done"
    /\ polls["loop"].pc = "done"
    /\ poll_age' = 0
    /\ poll_notifier' = "clear"
    /\ loop' = "waiting"
    /\ passes' = [passes EXCEPT !["loop"] = IdlePass]
    /\ polls' = [polls EXCEPT !["loop"] = IdlePoll]
    /\ UNCHANGED <<orders, trade_fills, account_balances, account_available_balances,
                   native_currency, balance_poll_age, status_polling_task, get_chain_info_task,
                   submitting>>
    /\ returned_id' = NoOrderId
    /\ UNCHANGED <<gas_used, gas_price, script_vars, fee, in_flight_orders_snapshot>>
    /\ reported' = {}

Running(pc) == pc \notin {"idle", "done", "raised"}

\* one call of the gather has raised: the gather raises at once, the other call
\* is not cancelled and goes on by itself; the loop logs and starts over
LoopCycleRaise ==
    /\ loop = "cycle"
    /\ passes["loop"].pc = "raised" \/ polls["loop"].pc = "raised"
    /\ Running(passes["loop"].pc) => passes["orphan"].pc = "idle"
    /\ Running(polls["loop"].pc) => polls["orphan"].pc = "idle"
    /\ passes' = [passes EXCEPT
                    !["loop"] = IdlePass,
                    !["orphan"] = IF Running(passes["loop"].pc) THEN passes["loop"] ELSE @]
    /\ polls' = [polls EXCEPT
                    !["loop"] = IdlePoll,
                    !["orphan"] = IF Running(polls["loop"].pc) THEN polls["loop"] ELSE @]
    /\ reported' = {"loop_error"}
    /\ poll_notifier' = "clear"
    /\ loop' = "waiting"
    /\ UNCHANGED <<orders, trade_fills, account_balances, account_available_balances,
                   native_currency, balance_poll_age, poll_age, status_polling_task, get_chain_info_task,
                   submitting>>
    /\ returned_id' = NoOrderId
    /\ UNCHANGED <<gas_used, gas_price, script_vars, fee, in_flight_orders_snapshot>>

\* the loop without its `except asyncio.CancelledError: raise`: the
\* cancellation is logged like any error and the loop goes round again
loop_cancelled_logged(position) == [loop |-> "waiting", reported |-> {"loop_error"}]

\* `except asyncio.CancelledError: raise` in the loop task: the task ends and
\* so do the calls it awaits; nothing is logged
loop_cancelled(position) == [loop |-> "cancelled", reported |-> {}]

\* stop_network without its second `if`: the chain info task is left running
stop_network_loop_only ==
    /\ status_polling_task = "task"
    /\ status_polling_task' = "none"
    /\ loop' = IF loop \in {"startup", "waiting", "cycle"} THEN "cancelled" ELSE loop
    /\ passes' = [passes EXCEPT !["loop"] = IdlePass]
    /\ polls' = [polls EXCEPT !["loop"] = IdlePoll]
    /\ reported' = {}
    /\ returned_id' = NoOrderId
    /\ UNCHANGED <<orders, trade_fills, account_balances, account_available_balances,
                   native_currency, balance_poll_age, poll_age, poll_notifier,
                   get_chain_info_task, submitting, gas_used, gas_price, script_vars, fee,
                   in_flight_orders_snapshot>>

\* stop_network: both tasks are cancelled and their handles set to None
StopNetwork ==
    /\ status_polling_task = "task"
    /\ status_polling_task' = "none"
    /\ get_chain_info_task' = "none"
    /\ IF loop \in {"startup", "waiting", "cycle"}
       THEN /\ loop' = loop_cancelled(loop).loop
            /\ reported' = loop_cancelled(loop).reported
            /\ passes' = [passes EXCEPT !["loop"] = IdlePass]
            /\ polls' = [polls EXCEPT !["loop"] = IdlePoll]
       ELSE /\ reported' = {}
            /\ UNCHANGED <<loop, passes, polls>>
    /\ UNCHANGED <<orders, trade_fills, account_balances, account_available_balances,
                   native_currency, balance_poll_age, poll_age, poll_notifier,
                   submitting>>
    /\ returned_id' = NoOrderId
    /\ UNCHANGED <<gas_used, gas_price, script_vars, fee, in_flight_orders_snapshot>>

\* stop_network called in any state of the engine.  __init__ does not create
\* _status_polling_task: before start_network the test of line 480 reads an
\* attribute that does not exist and raises AttributeError; after a stop both
\* handles are None and nothing is done
stop_network ==
    IF status_polling_task = "unset"
    THEN /\ reported' = {"AttributeError"}
         /\ returned_id' = NoOrderId
         /\ UNCHANGED <<orders, trade_fills, account_balances, account_available_balances,
                        native_currency, balance_poll_age, poll_age, poll_notifier,
                        status_polling_task, get_chain_info_task, loop, passes, polls,
                        submitting, gas_used, gas_price, script_vars, fee, in_flight_orders_snapshot>>
    ELSE IF status_polling_task = "task"
    THEN StopNetwork
    ELSE /\ reported' = {}
         /\ returned_id' = NoOrderId
         /\ UNCHANGED <<orders, trade_fills, account_balances, account_available_balances,
                        native_currency, balance_poll_age, poll_age, poll_notifier,
                        status_polling_task, get_chain_info_task, loop, passes, polls,
                        submitting, gas_used, gas_price, script_vars, fee, in_flight_orders_snapshot>>

(***************************************************************************)
(* The strategy scripts: on_tick and async_task.  A task is at "start"     *)
(* (scheduled by safe_ensure_future), or at the await of the price call,   *)
(* of the balance call before the trade, of the submission call, of        *)
(* poll_transaction, of the balance call after the trade, or of            *)
(* asyncio.sleep(60).                                                      *)
(***************************************************************************)
engine_vars == <<orders, trade_fills, account_balances, account_available_balances,
                 native_currency, balance_poll_age, poll_age, poll_notifier,
                 status_polling_task, get_chain_info_task, loop, passes, polls,
                 submitting, in_flight_orders_snapshot, gas_used, gas_price, fee,
                 returned_id, reported>>

InFlight(ts) == {i \in TaskIds : ts[i].pc # "none"}

\* the slot of the next coroutine
FreeSlot(ts) == CHOOSE i \in TaskIds : ts[i].pc = "none" /\ \A j \in 1..(i - 1) : ts[j].pc # "none"

\* on_tick without the test of on_going_task
on_tick_unguarded ==
    /\ script # NoScript
    /\ \E i \in TaskIds : tasks[i].pc = "none"
    /\ IF ~trade_executed
       THEN /\ on_going_task' = TRUE
            /\ tasks' = [tasks EXCEPT ![FreeSlot(tasks)] = [NoTask EXCEPT !.pc = "start"]]
       ELSE UNCHANGED <<on_going_task, tasks>>
    /\ UNCHANGED <<script, trade_executed, amm_trade_calls, balance_fresh, engine_vars>>

\* on_tick: a task is started when none is going on and the trade has not been
\* executed (amm_price_minswap has no trade_executed and tests on_going_task
\* only), and the flag is set before the task is scheduled
on_tick ==
    /\ script # NoScript
    /\ \E i \in TaskIds : tasks[i].pc = "none"
    /\ IF ~on_going_task /\ ~trade_executed
       THEN /\ on_going_task' = TRUE
            /\ tasks' = [tasks EXCEPT ![FreeSlot(tasks)] = [NoTask EXCEPT !.pc = "start"]]
       ELSE UNCHANGED <<on_going_task, tasks>>
    /\ UNCHANGED <<script, trade_executed, amm_trade_calls, balance_fresh, engine_vars>>

\* task i goes on to its next await, or ends ("end"): `finally` resets
\* on_going_task
task_goto(i, next_pc, wallet) ==
    /\ tasks' = IF next_pc = "end" THEN [tasks EXCEPT ![i] = NoTask]
                ELSE [tasks EXCEPT ![i] = [pc |-> next_pc, wallet |-> wallet]]
    /\ on_going_task' = IF next_pc = "end" THEN FALSE ELSE on_going_task

\* the submission call (amm_trade, amm_lp_add, amm_lp_remove) is issued
task_submit(i) ==
    /\ amm_trade_calls < MaxTradeCalls
    /\ amm_trade_calls' = amm_trade_calls + 1
    /\ task_goto(i, "trade", tasks[i].wallet)

\* async_task from its first line to its first await.  The wait script first
\* updates the balance when it is older than a minute, which binds `wallet`,
\* and returns when no wallet is configured
TaskStart(i, wallet_found) ==
    /\ tasks[i].pc = "start"
    /\ IF script # "amm_trade_wait_sundaeswap" \/ balance_fresh
       THEN task_goto(i, "price", FALSE)
       ELSE IF wallet_found THEN task_goto(i, "balance", TRUE)
       ELSE task_goto(i, "end", FALSE)
    /\ UNCHANGED <<script, trade_executed, amm_trade_calls, balance_fresh, engine_vars>>

\* what the price call gives: a price at which the trade is allowed, one at
\* which it is not (wait script), or an exception
PriceResults == {"allowed", "not_allowed", "raise"}

\* get_price / amm_lp_price returns or raises
TaskPriceReturn(i, result, wallet_found) ==
    /\ tasks[i].pc = "price"
    /\ IF result = "raise"
       THEN task_goto(i, "end", FALSE) /\ UNCHANGED amm_trade_calls
       ELSE IF script = "amm_price_minswap"
       THEN task_goto(i, "sleep", FALSE) /\ UNCHANGED amm_trade_calls
       ELSE IF script = "amm_trade_wait_sundaeswap"
       THEN IF result = "not_allowed"
            THEN task_goto(i, "sleep", tasks[i].wallet) /\ UNCHANGED amm_trade_calls
            ELSE IF tasks[i].wallet
                 THEN task_submit(i)
                 ELSE task_goto(i, "end", FALSE) /\ UNCHANGED amm_trade_calls
       ELSE IF wallet_found
            THEN task_goto(i, "balance", TRUE) /\ UNCHANGED amm_trade_calls
            ELSE task_goto(i, "end", FALSE) /\ UNCHANGED amm_trade_calls
    /\ UNCHANGED <<script, trade_executed, balance_fresh, engine_vars>>

\* the balance call before the trade returns; its errors are caught inside
\* get_balance / update_balance
TaskBalanceReturn(i, fetched) ==
    /\ tasks[i].pc = "balance"
    /\ balance_fresh' = (balance_fresh \/ (fetched /\ script # "amm_trade_minswap"))
    /\ IF script = "amm_trade_wait_sundaeswap"
       THEN task_goto(i, "price", TRUE) /\ UNCHANGED amm_trade_calls
       ELSE task_submit(i)
    /\ UNCHANGED <<script, trade_executed, engine_vars>>

\* what the submission call gives: a response with a transaction hash, or an
\* exception (a gateway error, a timeout)
TradeResults == {"txHash", "raise"}

\* the submission call returns or raises
TaskTradeReturn(i, result) ==
    /\ tasks[i].pc = "trade"
    /\ IF result = "txHash" THEN task_goto(i, "poll", tasks[i].wallet)
       ELSE task_goto(i, "end", FALSE)
    /\ UNCHANGED <<script, trade_executed, amm_trade_calls, balance_fresh, engine_vars>>

\* poll_transaction returns: it catches every error and leaves its loop when
\* the transaction is confirmed
TaskPollReturn(i) ==
    /\ tasks[i].pc = "poll"
    /\ task_goto(i, "balance_after", tasks[i].wallet)
    /\ UNCHANGED <<script, trade_executed, amm_trade_calls, balance_fresh, engine_vars>>

\* the balance call after the trade returns: the trade is marked executed and
\* the task ends
TaskBalanceAfterReturn(i, fetched) ==
    /\ tasks[i].pc = "balance_after"
    /\ balance_fresh' = (balance_fresh \/ (fetched /\ script # "amm_trade_minswap"))
    /\ trade_executed' = TRUE
    /\ task_goto(i, "end", FALSE)
    /\ UNCHANGED <<script, amm_trade_calls, engine_vars>>

\* asyncio.sleep(60) returns and the task ends
TaskSleepReturn(i) ==
    /\ tasks[i].pc = "sleep"
    /\ task_goto(i, "end", FALSE)
    /\ UNCHANGED <<script, trade_executed, amm_trade_calls, balance_fresh, engine_vars>>

\* more than a minute passes since the balance was updated
BalanceGetsOld ==
    /\ balance_fresh
    /\ balance_fresh' = FALSE
    /\ UNCHANGED <<script, on_going_task, trade_executed, tasks, amm_trade_calls,
                   engine_vars>>

(***************************************************************************)
(* The specifications.  The steps of the engine are the same in all of     *)
(* them; they differ in the inputs the environment (the caller, the        *)
(* gateway) supplies.                                                      *)
(***************************************************************************)
\* the (price, amount) pairs callers ask for
Requests == {<<1, 1>>, <<2, 2>>}

\* orders: place_order calls, submit results, status polls
OrderSteps(sides, requests, statuses) ==
    \/ \E side \in sides, pair \in TradingPairs, req \in requests :
          place_order(side, pair, req[1], req[2])
    \/ \E o \in OrderIds, r \in SubmitResults : create_order_return(o, r)
    \/ \E c \in PollCtx : PollGotIds(c)
    \/ \E c \in PollCtx : PollIdTimeout(c)
    \/ \E c \in PollCtx :
          \E results \in [polls[c].tracked_orders -> statuses] : PollQueryReturn(c, results)
    \/ \E c \in PollCtx : PollProcess(c)

\* start_tracking_order called by itself, for a transaction already submitted
TrackingSteps(sides, requests) ==
    \E o \in {create_market_order_id(sd, p) : sd \in sides, p \in TradingPairs},
       req \in requests : start_tracking_order(o, "tx", req[1], req[2], FALSE)

\* start_tracking_order called by itself for an approval transaction
ApprovalSteps(sides, requests) ==
    \E o \in {create_market_order_id(sd, p) : sd \in sides, p \in TradingPairs},
       req \in requests : start_tracking_order(o, "tx", req[1], req[2], TRUE)

\* balance reconciliation passes of the contexts ctxs
BalanceSteps(ctxs, chain_results, responses) ==
    \/ \E r \in chain_results : GetChainInfoReturn(r)
    \/ \E c \in ctxs, r \in chain_results : BalanceChainInfoReturn(c, r)
    \/ \E c \in ctxs, resp \in responses : BalanceFetchReturn(c, resp)
    \/ \E c \in ctxs : BalanceFetchRaise(c)
    \/ \E c \in ctxs : BalanceMerge(c)

\* the scheduling loop, and the clock ticking at the intervals of steps
LoopStepsAt(steps) ==
    \/ StartNetwork
    \/ LoopStartupDone
    \/ LoopStartupRaise
    \/ \E d \in steps : tick(d)
    \/ LoopWake
    \/ LoopCycleDone
    \/ LoopCycleRaise

\* the scheduling loop and the clock
LoopSteps == LoopStepsAt(TimeSteps)

\* one balance response: {A: 1}
OneBalance == {[t \in Tokens |-> IF t = "A" THEN 1 ELSE NoBal]}

Details(txStatus, receipt) ==
    [kind |-> "details", txStatus |-> txStatus, receipt |-> receipt]

\* one response for each way through the poller's for loop
TxBranches == {TxException, TxNoHash, Details(1, 1), Details(0, NoReceipt),
               Details(-1, NoReceipt), Details(1, NoReceipt)}

\* the input sets of the specifications below
OneSide == {"buy"}
OneRequest == {<<1, 1>>}
CycleCtx == {"loop", "orphan"}
LoopCtx == {"loop"}
LoopAndDemandCtx == {"loop", "demand"}
ChainInfoAnswers == {"dict"}
PollingStatuses == {TxException, Details(1, 1), Details(0, NoReceipt)}
RestoreStatuses == {Details(1, 1), Details(0, NoReceipt)}

\* the whole engine with one order id; the chain info query answers
Next ==
    \/ OrderSteps(OneSide, Requests, TxBranches)
    \/ TrackingSteps(OneSide, OneRequest)
    \/ BalanceSteps(CycleCtx, ChainInfoAnswers, OneBalance)
    \/ LoopSteps
    \/ StopNetwork

Spec == Init /\ [][Next]_vars

\* the poller with two order ids, the engine running
NextPolling ==
    \/ OrderSteps(Sides, OneRequest, PollingStatuses)
    \/ BalanceSteps(CycleCtx, ChainInfoAnswers, OneBalance)
    \/ LoopSteps

SpecPolling == Init /\ [][NextPolling]_vars

\* balance reconciliation alone: no order is placed
NextBalances ==
    \/ BalanceSteps(LoopAndDemandCtx, ChainInfoResults, BalanceMaps)
    \/ UserUpdateBalances
    \/ LoopSteps
    \/ StopNetwork

SpecBalances == Init /\ [][NextBalances]_vars

\* the loop by itself: no order, no caller of _update_balances, so that balance
\* passes run one after the other
NextLoopAlone ==
    \/ BalanceSteps(LoopCtx, ChainInfoResults, OneBalance)
    \/ LoopSteps

SpecLoopAlone == Init /\ [][NextLoopAlone]_vars

\* the clock keeps ticking, every remote call that was issued returns or
\* raises, and the event loop runs every task that is ready
LoopFairness ==
    /\ WF_vars(\E d \in TimeSteps : tick(d))
    /\ WF_vars(BalanceSteps(LoopCtx, ChainInfoResults, OneBalance))
    /\ WF_vars(LoopStartupDone)
    /\ WF_vars(LoopStartupRaise)
    /\ WF_vars(LoopWake)
    /\ WF_vars(LoopCycleDone)
    /\ WF_vars(LoopCycleRaise)

\* the loop by itself under that scheduling
SpecLoopFair == Init /\ [][NextLoopAlone]_vars /\ LoopFairness

\* one order id and every status report the gateway can give
NextStatus ==
    \/ OrderSteps(OneSide, OneRequest, TxDetails)
    \/ BalanceSteps(CycleCtx, ChainInfoAnswers, OneBalance)
    \/ LoopSteps

SpecStatus == Init /\ [][NextStatus]_vars

\* the fee computation by itself, for every gas used and gas price
InitFee ==
    /\ InitEngine
    /\ gas_used \in 0..MaxGas
    /\ gas_price \in 0..MaxGas
    /\ fee = NoFee
    /\ InitNoScript

SpecFee == InitFee /\ [][ComputeFee]_vars

\* one order id, and the engine rebuilt from its saved tracking states
NextRestore ==
    \/ OrderSteps(OneSide, OneRequest, RestoreStatuses)
    \/ TrackingSteps(OneSide, OneRequest)
    \/ BalanceSteps(CycleCtx, ChainInfoAnswers, OneBalance)
    \/ LoopSteps
    \/ RestartAndRestore

SpecRestore == Init /\ [][NextRestore]_vars

\* one order id, the engine started and stopped
NextStop ==
    \/ OrderSteps(OneSide, OneRequest, RestoreStatuses)
    \/ BalanceSteps(CycleCtx, ChainInfoAnswers, OneBalance)
    \/ LoopSteps
    \/ StopNetwork

SpecStop == Init /\ [][NextStop]_vars

\* the clock of the default configuration (a tick every second) and a late tick
TickSteps == {1, 30}

\* the loop, its balance passes and the clock ticking every second; no order
NextTick ==
    \/ BalanceSteps(LoopCtx, ChainInfoAnswers, OneBalance)
    \/ LoopStepsAt(TickSteps)
    \/ StopNetwork

SpecTick == Init /\ [][NextTick]_vars

\* one order id, tracked as a trade (by place_order or directly) or as an
\* approval
NextApproval ==
    \/ OrderSteps(OneSide, OneRequest, RestoreStatuses)
    \/ TrackingSteps(OneSide, OneRequest)
    \/ ApprovalSteps(OneSide, OneRequest)
    \/ BalanceSteps(CycleCtx, ChainInfoAnswers, OneBalance)
    \/ LoopSteps

SpecApproval == Init /\ [][NextApproval]_vars

\* one order id placed by place_order, and saved states restored while the
\* engine runs
NextRestoreSaved ==
    \/ OrderSteps(OneSide, OneRequest, RestoreStatuses)
    \/ BalanceSteps(CycleCtx, ChainInfoAnswers, OneBalance)
    \/ LoopSteps
    \/ RestoreSaved

SpecRestoreSaved == Init /\ [][NextRestoreSaved]_vars

\* the engine with stop_network called at any time, also before start_network
\* and after an earlier stop
NextStopAnytime ==
    \/ BalanceSteps(LoopCtx, ChainInfoResults, OneBalance)
    \/ LoopSteps
    \/ stop_network

SpecStopAnytime == Init /\ [][NextStopAnytime]_vars

\* one of the strategy scripts, the clock calling its on_tick
InitScripts ==
    /\ InitEngine
    /\ gas_used = 0
    /\ gas_price = 0
    /\ fee = NoFee
    /\ script \in Scripts
    /\ InitScriptFlags

NextScripts ==
    \/ on_tick
    \/ \E i \in TaskIds, found \in BOOLEAN : TaskStart(i, found)
    \/ \E i \in TaskIds, r \in PriceResults, found \in BOOLEAN : TaskPriceReturn(i, r, found)
    \/ \E i \in TaskIds, fetched \in BOOLEAN : TaskBalanceReturn(i, fetched)
    \/ \E i \in TaskIds, r \in TradeResults : TaskTradeReturn(i, r)
    \/ \E i \in TaskIds : TaskPollReturn(i)
    \/ \E i \in TaskIds, fetched \in BOOLEAN : TaskBalanceAfterReturn(i, fetched)
    \/ \E i \in TaskIds : TaskSleepReturn(i)
    \/ BalanceGetsOld

SpecScripts == InitScripts /\ [][NextScripts]_vars

(***************************************************************************)
(* Properties.                                                             *)
(***************************************************************************)
\* a status poll of context c runs its for loop in this step
ProcessedStep(c) == polls[c].pc = "results" /\ polls'[c].pc = Finished(c)

\* C1: once an order is FILLED, FAILED or CANCELED no later update (submission
\* result, status-poll result, not-found handling) changes its record; a late
\* failure report for a FILLED order leaves it FILLED.
TerminalLock ==
    [][\A o \in OrderIds : is_done(orders[o]) => orders'[o] = orders[o]]_vars

\* C1 witness: a poll has just handled a not-found report for the one order id
\* and the order is FILLED (it was filled by an overlapping poll)
LateFailureIgnored ==
    /\ "network_error" \in reported
    /\ \E o \in OrderIds : orders[o].state = "FILLED" /\ orders[o].not_found = 0

\* C2: when a poll processes, for an active order (PENDING_CREATE included), a
\* response with success status and successful receipt, that step records one
\* trade fill for the order and leaves the order FILLED.
SuccessFills ==
    [][\A c \in PollCtx : ProcessedStep(c) =>
          \A o \in polls[c].tracked_orders :
             (polls[c].update_results[o] = Details(1, 1) /\ o \in active_orders(orders))
                => (orders'[o].state = "FILLED" /\ trade_fills'[o] = trade_fills[o] + 1)]_vars

\* C2 witness: an order that was tracked with its exchange id and never went
\* OPEN (no submission metadata) is FILLED with one trade fill
FilledFromPendingCreate ==
    \E o \in OrderIds :
       orders[o].state = "FILLED" /\ orders[o].misc = "none" /\ trade_fills[o] = 1

\* C3: with the default budget of 10, each of the first nine not-found calls
\* on a non-terminal order leaves its state unchanged and the tenth makes it
\* FAILED.
TenNotFound ==
    [][\A o \in OrderIds :
          orders'[o].not_found = orders[o].not_found + 1 =>
             /\ orders'[o].not_found <= 9 => orders'[o].state = orders[o].state
             /\ orders'[o].not_found = 10 =>
                   (orders[o].state # "FAILED" /\ orders'[o].state = "FAILED")
             /\ orders'[o].not_found <= 10]_vars

\* C3 witness: an order failed as lost by its tenth not-found response
LostAfterTen ==
    \E o \in OrderIds :
       orders[o].state = "FAILED" /\ orders[o].misc = "lost" /\ orders[o].not_found = 10

\* C4: in a poll over several orders the status queries never make the poll
\* raise, and when the results are processed an order whose query raised is
\* left as it was while the update implied by every other response (FILLED and
\* a trade fill for a success, nothing for a pending one) is applied in the
\* same step.
SiblingIsolation ==
    [][\A c \in PollCtx :
          /\ polls[c].pc = "query" => polls'[c].pc # Raised(c)
          /\ ProcessedStep(c) =>
                \A o \in polls[c].tracked_orders :
                   LET r == polls[c].update_results[o]
                   IN /\ r \in {TxException, Details(0, NoReceipt)} =>
                            (orders'[o] = orders[o] /\ trade_fills'[o] = trade_fills[o])
                      /\ (r = Details(1, 1) /\ o \in active_orders(orders)) =>
                            (orders'[o].state = "FILLED"
                               /\ trade_fills'[o] = trade_fills[o] + 1)]_vars

\* C4 witness: the queries of a poll over two orders have returned, one with
\* an exception and the other with a success
OneQueryRaised ==
    \E c \in PollCtx : \E o1, o2 \in polls[c].tracked_orders :
       /\ polls[c].pc = "results"
       /\ polls[c].update_results[o1] = TxException
       /\ polls[c].update_results[o2] = Details(1, 1)

\* C5: the merge step of a balance reconciliation pass that received response
\* R leaves the balance map equal to exactly R.
MergeYieldsResponse ==
    [][\A c \in PassCtx :
          (passes[c].pc = "merge" /\ passes'[c].pc \in {Finished(c), Raised(c)})
             => account_balances' = passes[c].resp]_vars

UniqueClientOrderId ==
    [][returned_id' # NoOrderId => ~IsPresent(orders, returned_id')]_vars

\* C8: a transport error of a remote call made from the scheduling loop never
\* ends the loop.
LoopStaysAlive == loop # "dead"

\* C9: cancelling the scheduling loop (at startup, waiting or in a cycle) ends
\* it without a failure report and without touching orders, trade fills or
\* balances, and a cancelled loop starts nothing again.
CancelPropagates ==
    [][/\ (status_polling_task = "task" /\ status_polling_task' = "none"
             /\ loop \in {"startup", "waiting", "cycle"})
          => /\ loop' = "cancelled"
             /\ reported' = {}
             /\ orders' = orders
             /\ trade_fills' = trade_fills
             /\ account_balances' = account_balances
             /\ account_available_balances' = account_available_balances
       /\ loop = "cancelled"
          => (loop' = "cancelled" /\ passes'["loop"].pc = "idle"
                /\ polls'["loop"].pc = "idle")]_vars

\* C9 witness: the loop is cancelled after a fill and a balance merge
CancelledWithUpdates ==
    /\ loop = "cancelled"
    /\ Keys(account_balances) # {}
    /\ \E o \in OrderIds : orders[o].state = "FILLED"

\* C10: at most one balance reconciliation pass is between the start of its
\* balance fetch and the end of its merge.
PassesSerialized ==
    Cardinality({c \in PassCtx : passes[c].pc \in {"fetch", "merge"}}) <= 1

\* C11: an on-interval pass is executed only when more than the interval has
\* elapsed since the last successful reconciliation, so after the balance fetch
\* of an on-interval pass has failed (no pass has succeeded in between: passes
\* run one after the other) the debounce still reads more than the interval.
FailedFetchKeepsWindow ==
    [][(loop = "cycle" /\ passes["loop"].pc = "fetch" /\ passes'["loop"].pc = "raised")
          => balance_poll_age' > UPDATE_BALANCE_INTERVAL]_vars

\* C12: a balance fetch is issued only once the native currency is known: at
\* every step at which a pass goes on to its balance fetch the native currency
\* is set.
FetchNeedsNativeCurrency ==
    [][\A c \in PassCtx :
          (passes[c].pc # "fetch" /\ passes'[c].pc = "fetch")
             => native_currency' # NoCurrency]_vars

\* C13: the native currency is resolved once: a network-metadata query (the
\* task of start_network, the query of a balance pass) is issued only while it
\* is unknown, and once known its value never changes.
NativeCurrencyResolvedOnce ==
    [][/\ ((get_chain_info_task # "running" /\ get_chain_info_task' = "running")
            \/ \E c \in PassCtx : passes[c].pc # "chain" /\ passes'[c].pc = "chain")
          => native_currency = NoCurrency
       /\ native_currency # NoCurrency => native_currency' = native_currency]_vars

\* C14: when the submit call raises or returns no transaction id, the order
\* goes to FAILED in that step and its metadata holds the error.
RejectionCaptured ==
    [][\A o \in OrderIds :
          (o \in submitting /\ o \notin submitting' /\ "submit_error" \in reported')
             => (orders'[o].state = "FAILED" /\ orders'[o].misc = "error")]_vars

\* the allowed transitions of the order state machine
StateMachineEdges ==
    {<<"PENDING_APPROVAL", "OPEN">>, <<"PENDING_CREATE", "OPEN">>, <<"OPEN", "FILLED">>,
     <<"OPEN", "PENDING_CANCEL">>, <<"PENDING_CANCEL", "CANCELED">>}
       \cup {<<st, "FAILED">> : st \in {"PENDING_APPROVAL", "PENDING_CREATE", "OPEN",
                                        "PENDING_CANCEL"}}

\* C15: every change of the state of a tracked order follows an edge of the
\* state machine.
TransitionsFollowEdges ==
    [][\A o \in OrderIds :
          (IsPresent(orders, o) /\ orders'[o].state # orders[o].state)
             => <<orders[o].state, orders'[o].state>> \in StateMachineEdges]_vars

\* C16: a status report with code 0, 2 or 3 changes nothing of the order (no
\* transition, same not-found count, no trade fill), and every cycle the loop
\* starts polls all the open orders, so the order is queried again.
PendingChangesNothing ==
    [][/\ \A c \in PollCtx : ProcessedStep(c) =>
             \A o \in polls[c].tracked_orders :
                LET r == polls[c].update_results[o]
                IN (r.kind = "details" /\ r.txStatus \in {0, 2, 3}) =>
                      (orders'[o] = orders[o] /\ trade_fills'[o] = trade_fills[o])
       /\ (loop = "waiting" /\ loop' = "cycle") =>
             polls'["loop"].tracked_orders = amm_orders(orders')]_vars

\* C16 witness: the report about an OPEN order that has been polled before
\* (its not-found count is not zero) has code 3 and a failed receipt
PendingReportReceived ==
    \E c \in PollCtx : \E o \in polls[c].tracked_orders :
       /\ polls[c].pc = "results"
       /\ polls[c].update_results[o] = Details(3, 0)
       /\ orders[o].state = "OPEN"
       /\ orders[o].not_found > 0

\* C17: every status report about an active order that carries the failure
\* status (-1) or a receipt marked failed, whatever its status code, makes the
\* poller call mark_not_found for the order (its not-found count grows by one)
\* with a network-error report.
FailureMarksNotFound ==
    [][\A c \in PollCtx : ProcessedStep(c) =>
          \A o \in polls[c].tracked_orders \cap active_orders(orders) :
             LET r == polls[c].update_results[o]
             IN (r.kind = "details" /\ (r.txStatus = -1 \/ r.receipt = 0)) =>
                   (orders'[o].not_found = orders[o].not_found + 1
                      /\ "network_error" \in reported')]_vars

\* C18: the fee of a fill is the gas used multiplied by the gas price, with no
\* other factor.
FeeIsProduct ==
    fee # NoFee => fee = Normalized(Dec(gas_used * gas_price, 0))

\* C19: when the registry of a new engine is the result of restoring the saved
\* tracking states of the engine before it, it holds every order that engine
\* tracked, terminal ones included, in the same state.
RestoreKeepsOrders ==
    [][(/\ loop' = "init"
        /\ orders' = restore_tracking_states([o \in OrderIds |-> NoOrder],
                                             tracking_states(orders)))
          => \A o \in OrderIds :
                IsPresent(orders, o) =>
                   (IsPresent(orders', o) /\ orders'[o].state = orders[o].state)]_vars

\* C20: the snapshot is a point-in-time copy: what is reachable from the copy
\* of an order is what the order held when the snapshot was taken.
SnapshotIsFrozen ==
    \A o \in OrderIds :
       in_flight_orders_snapshot[o] # NoCopy =>
          snapshot_fills(o) = in_flight_orders_snapshot[o].fills_at_copy

IdFailureIsolated ==
    [][\A c \in PollCtx :
          (/\ polls[c].pc = "ids"
           /\ \E o \in polls[c].tracked_orders : orders[o].exchange_order_id # NoId
           /\ polls'[c] # polls[c]
           /\ loop' = loop)
             => polls'[c].pc = "query"]_vars

\* C24: a new order record is in PENDING_CREATE or PENDING_APPROVAL; the submit
\* call of an order is issued with the record in the registry, PENDING_CREATE
\* and without exchange id; and an order becomes OPEN only in the step in which
\* its submit call returns a transaction id, which sets the state, the exchange
\* id and the fee metadata together.
OpenOnlyAfterSubmit ==
    [][\A o \in OrderIds :
          /\ (~IsPresent(orders, o) /\ IsPresent(orders', o))
                => orders'[o].state \in {"PENDING_CREATE", "PENDING_APPROVAL"}
          /\ (o \notin submitting /\ o \in submitting')
                => (orders'[o].state = "PENDING_CREATE"
                      /\ orders'[o].exchange_order_id = NoId)
          /\ (orders[o].state # "OPEN" /\ orders'[o].state = "OPEN")
                => /\ o \in submitting /\ o \notin submitting'
                   /\ orders[o].state \in {"PENDING_CREATE", "PENDING_APPROVAL"}
                   /\ orders[o].exchange_order_id = NoId /\ orders[o].misc = "none"
                   /\ orders'[o].exchange_order_id = "tx" /\ orders'[o].misc = "gas"]_vars

\* C24 witness: a submission has returned and left the order OPEN with its
\* exchange id and its fee metadata
OpenedBySubmission ==
    \E o \in OrderIds :
       /\ o \notin submitting
       /\ orders[o].state = "OPEN"
       /\ orders[o].exchange_order_id = "tx"
       /\ orders[o].misc = "gas"

\* C25: every cycle the loop starts queries every active order of the registry,
\* the orders in PENDING_APPROVAL included (without which a successful
\* transaction of such an order is never seen and the order stays active).
CycleQueriesEveryActive ==
    [][(loop = "waiting" /\ loop' = "cycle") =>
          polls'["loop"].tracked_orders = active_orders(orders')]_vars

\* C26: a success report about an order whose fill has been recorded (a second
\* report of the same success, processed by an overlapping polling pass)
\* records no further trade fill and reports nothing further.
FillOncePerSuccess ==
    [][\A c \in PollCtx : ProcessedStep(c) =>
          \A o \in polls[c].tracked_orders :
             (polls[c].update_results[o] = Details(1, 1) /\ orders[o].state = "FILLED"
                /\ trade_fills[o] >= 1)
                => (trade_fills'[o] = trade_fills[o] /\ orders'[o] = orders[o])]_vars

\* C27: restore_tracking_states leaves the record of every order that is
\* already tracked as it is; in particular it leaves a terminal order terminal.
RestoreKeepsTracked ==
    [][RestoreSaved =>
          \A o \in OrderIds :
             IsPresent(orders, o) =>
                /\ orders'[o] = orders[o]
                /\ is_done(orders[o]) => is_done(orders'[o])]_vars

\* C28: when a balance pass completes and no other pass is in progress, both
\* balance maps equal the response of that pass, whatever passes ran in
\* between (no token absent from the response survives and the pass did not
\* end in an error of its merge).
BalancesEqualLastResponse ==
    [][\A c \in PassCtx :
          (/\ passes[c].pc = "merge"
           /\ passes'[c].pc = Finished(c)
           /\ \A d \in PassCtx \ {c} : passes[d].pc \notin {"chain", "fetch", "merge"})
             => /\ account_balances' = passes[c].resp
                /\ account_available_balances' = passes[c].resp]_vars

\* C29: once the engine has been started, with the clock ticking and every
\* remote call coming back, the loop starts a polling cycle again and again.
CyclesKeepRunning == (loop # "init") ~> (loop = "cycle")

\* C30: when the submit call of an order returns a response with a non-empty
\* transaction hash, the order ends the submission OPEN with that exchange id,
\* whatever else the response holds.
AcceptedEndsOpen ==
    [][\A o \in OrderIds, r \in AcceptedResults :
          (create_order_return(o, r) /\ ~is_done(orders[o]))
             => (orders'[o].state = "OPEN" /\ orders'[o].exchange_order_id = "tx")]_vars

\* C31: in every reachable state in which no balance pass is about to merge its
\* response, the total-balance map and the available-balance map hold the same
\* tokens with the same amounts.
BalanceMapsAgree ==
    (\A c \in PassCtx : passes[c].pc # "merge")
       => account_balances = account_available_balances

\* C31 witness: a response with token A and without token B has been merged
\* into both maps and no pass is about to merge
MapsAfterMerges ==
    /\ \A c \in PassCtx : passes[c].pc # "merge"
    /\ account_balances["A"] = 2
    /\ account_balances["B"] = NoBal
    /\ account_available_balances["A"] = 2

\* C32: stop_network completes without error in every state of the engine,
\* also before start_network was called and after an earlier stop.
StopNeverRaises == "AttributeError" \notin reported

\* C33: at most one async_task of a script is in flight; a task is started
\* only in a step that finds on_going_task false and sets it, and on_going_task
\* goes back to false only in a step in which the task in flight ends.
OneTaskInFlight ==
    [][/\ Cardinality(InFlight(tasks')) <= 1
       /\ (InFlight(tasks') \ InFlight(tasks) # {})
             => (~on_going_task /\ on_going_task' /\ InFlight(tasks) = {})
       /\ (on_going_task /\ ~on_going_task')
             => (InFlight(tasks) # {} /\ InFlight(tasks') = {})]_vars

\* C33 witness: a task has ended after its submission call and the next tick
\* has started another one, which is the only one in flight
SecondTaskAlone ==
    /\ amm_trade_calls >= 1
    /\ on_going_task
    /\ \E i \in TaskIds : tasks[i].pc = "start" /\ InFlight(tasks) = {i}

\* C34: a trade script issues its submission call (amm_trade) at most once,
\* whatever ticks, gateway errors and retries happen.
TradeIssuedOnce == script \in TradeScripts => amm_trade_calls <= 1

====
